---- MODULE Spec2Model ----
(***************************************************************************)
(* Street-itinerary extraction of OSM-ptsn.                                *)
(*                                                                         *)
(*   teste2.py  BusRouteNavigator: SQLite-cached reverse geocoding         *)
(*              (get_street_info) and the street-run consolidation         *)
(*              (get_bus_route_streets).                                   *)
(*   main.py    geocode_reverse (dict cache), is_valid_street and          *)
(*              get_street_itinerary.                                      *)
(*   teste.py   extrair_nomes_das_ruas with the bearing test of            *)
(*              calcular_direcao.                                          *)
(*                                                                         *)
(* Strings that the code inspects character by character (street names)    *)
(* are sequences of one-character strings.  Python values that may be None *)
(* are records tagged with py.  Lengths are whole metres.                  *)
(***************************************************************************)
EXTENDS Integers, Sequences, FiniteSets, TLC

VARIABLES
    prog,            \* what runs: "teste2", "main", "teste" or "filter"
    pc,              \* "loop" or "call", then "done" or "raised"
    passes,          \* calls of get_bus_route_streets started so far
    segments,        \* BusRouteNavigator.segments
    street_names,    \* the SQLite table street_names: key -> row
    i,               \* position of the for loop (1-based)
    route_streets,   \* get_bus_route_streets: route_streets
    current_street,  \* get_bus_route_streets: current_street
    resolved,        \* history: what the lookup returned for each item of this pass
    last,            \* history: the most recent lookup
    first_ret,       \* history: key -> what the lookup that filled the cache returned
    points,          \* get_street_itinerary: points
    cache,           \* geocode_reverse: the default-argument dict
    previous_street, \* get_street_itinerary: previous_street
    itinerary,       \* get_street_itinerary: street_names
    coordenadas,     \* extrair_nomes_das_ruas: coordenadas
    nomes_ruas,      \* extrair_nomes_das_ruas: nomes_ruas
    rua_anterior,    \* extrair_nomes_das_ruas: rua_anterior
    address_arg,     \* is_valid_street called on its own: the argument
    street_ret,      \* is_valid_street called on its own: the return value
    callers,         \* interleaved calls of get_street_info: caller -> its position
    geojson          \* the features of the file the navigator is constructed on

nav_vars == <<passes, segments, street_names, route_streets, current_street>>
main_vars == <<points, cache, previous_street, itinerary>>
teste_vars == <<coordenadas, nomes_ruas, rua_anterior>>
filter_vars == <<address_arg, street_ret>>
conc_vars == <<callers>>
build_vars == <<geojson>>

vars == <<prog, pc, i, resolved, last, first_ret, nav_vars, main_vars, teste_vars,
          filter_vars, conc_vars, build_vars>>

-----------------------------------------------------------------------------
(* Bounds *)

MaxSegments == 3     \* features in the GeoJSON file
MaxPoints == 3       \* points given to get_street_itinerary
MaxSteps == 4        \* steps of the route given to extrair_nomes_das_ruas
MaxCallers == 2      \* calls of get_street_info that interleave on one cache

\* __main__ of teste2.py calls get_bus_route_streets, and then
\* generate_bus_route_report calls it once more on the same navigator
Calls == 2

-----------------------------------------------------------------------------
(* Python values *)

PyNone == [py |-> "None"]
PyStr(s) == [py |-> "str", s |-> s]

\* a missing key of a JSON object, where a name is expected
Absent == <<"absent">>
\* Python None, or a missing key, where a way type is expected
NoneType == "None"

\* bool(v) as used by `if v:` / `if not v:`.  An address dict is empty when
\* it has neither key; the other dicts and the rows always have members.
Truthy(v) ==
    CASE v.py = "None" -> FALSE
      [] v.py = "str" -> v.s # <<>>
      [] v.py = "address" -> v.road # Absent \/ v.road_type # NoneType
      [] OTHER -> TRUE

-----------------------------------------------------------------------------
(* Strings *)

\* str.lower() on the characters that occur
LowerChar(c) ==
    CASE c = "A" -> "a"
      [] c = "B" -> "b"
      [] c = "E" -> "e"
      [] OTHER -> c

Lower(s) == [k \in 1..Len(s) |-> LowerChar(s[k])]

\* sub in s
Contains(s, sub) ==
    \E k \in 0..(Len(s) - Len(sub)) :
        \A j \in 1..Len(sub) : s[k + j] = sub[j]

NameA == <<"A">>
NameB == <<"B">>
NameAampB == <<"A", " ", "&", " ", "B">>
NameAEB == <<"A", " ", "E", " ", "B">>
NameEmpty == <<>>
RuaDesconhecida == <<"R", "u", "a", " ", "D", "e", "s", "c", "o", "n", "h", "e", "c", "i", "d", "a">>
ViaInadequada == <<"V", "I", "A", " ", "I", "N", "A", "D", "E", "Q", "U", "A", "D", "A">>

\* road names the geocoder may answer with
Roads == {NameA, NameB, NameAampB, NameAEB, NameEmpty}

\* a name that denotes an explicit intersection
IsIntersectionName(s) == Contains(Lower(s), <<" ", "e", " ">>) \/ Contains(s, <<"&">>)

-----------------------------------------------------------------------------
(* The reverse-geocoding service: what one request may come back with *)

UNSUITABLE_WAYS ==
    {"cycleway", "footway", "path", "pedestrian", "steps", "track",
     "bridleway", "raceway", "bus_guideway", "escape", "service"}

\* highway tags the service answers with: one suitable, one unsuitable
WayTypes == {"residential", "footway"}

Responses ==
    {[kind |-> k, road |-> Absent, highway |-> NoneType, road_type |-> NoneType] :
        k \in {"exc", "http", "badjson", "badshape"}}
    \cup
    {[kind |-> "ok", road |-> r, highway |-> h, road_type |-> t] :
        r \in Roads \cup {Absent},
        h \in WayTypes \cup {NoneType},
        t \in WayTypes \cup {NoneType}}

\* A request is issued only when the cache does not hold the key; with no
\* request there is no response to draw.
NoResponse == [kind |-> "none", road |-> Absent, highway |-> NoneType, road_type |-> NoneType]

Exchange(hit) == IF hit THEN {NoResponse} ELSE Responses

\* coordinates [lon, lat]
C0 == <<0, 0>>
C1 == <<1, 0>>
C2 == <<2, 0>>
\* the coordinates that are looked up
Coords == {C0, C1}
Keys == {<<c[2], c[1]>> : c \in Coords}     \* (lat, lon)


-----------------------------------------------------------------------------
(* teste2.py: segments *)

R == 6371000

Abs(n) == IF n < 0 THEN -n ELSE n

\* Every modelled coordinate lies on the equator (lat = 0), where the
\* haversine formula reduces to R * radians(|lon2 - lon1|); pi is 3.1416 and
\* the product is kept within 32 bits.
haversine_distance(coord1, coord2) ==
    ((R \div 1000) * 31416 * Abs(coord2[1] - coord1[1])) \div 1800

RECURSIVE calculate_segment_length(_)
calculate_segment_length(coords) ==
    IF Len(coords) < 2 THEN 0
    ELSE haversine_distance(coords[1], coords[2]) + calculate_segment_length(Tail(coords))

\* coordinate lists of the features of the GeoJSON file
Polylines == {<<C0>>, <<C0, C1>>, <<C2, C0, C0>>}

FeatureLists == UNION {[1..n -> Polylines] : n \in 0..MaxSegments}

\* the id of a feature is its position in the file
process_segments(features) ==
    [k \in 1..Len(features) |->
        [id |-> k,
         coordinates |-> features[k],
         start |-> features[k][1],
         end |-> features[k][Len(features[k])],
         length |-> calculate_segment_length(features[k])]]

-----------------------------------------------------------------------------
(* teste2.py: the SQLite cache and get_street_info *)

\* fetchone() of the SELECT: the row, or None
get_street_info_from_cache(table, lat, lon) == table[<<lat, lon>>]

\* INSERT OR REPLACE on the primary key (lat, lon)
save_street_info_to_cache(table, lat, lon, street_name, highway_type) ==
    [table EXCEPT ![<<lat, lon>>] =
        [py |-> "row", street_name |-> street_name, highway_type |-> highway_type]]

StreetInfo(name, type) == [py |-> "dict", name |-> name, type |-> type]

\* a or b on way types
OrElse(a, b) == IF a # NoneType THEN a ELSE b

\* what get_street_info stores as the way type
StoredType(highway_type) == OrElse(highway_type, "unknown")

\* a lookup that deletes the row it was answered from
get_street_info_forgets_row(coord, table, resp) ==
    LET lon == coord[1]
        lat == coord[2]
        cached_info == get_street_info_from_cache(table, lat, lon)
    IN  IF Truthy(cached_info)
        THEN [ret |-> IF cached_info.highway_type \in UNSUITABLE_WAYS
                      THEN PyNone
                      ELSE StreetInfo(cached_info.street_name, cached_info.highway_type),
              table |-> [table EXCEPT ![<<lat, lon>>] = PyNone],
              net |-> FALSE, slept |-> FALSE]
        ELSE IF resp.kind # "ok"
        THEN [ret |-> PyNone, table |-> table, net |-> TRUE, slept |-> TRUE]
        ELSE LET highway_type == OrElse(resp.highway, resp.road_type)
                 street_name == IF resp.road = Absent THEN RuaDesconhecida ELSE resp.road
             IN  IF highway_type \in UNSUITABLE_WAYS
                 THEN [ret |-> PyNone,
                       table |-> save_street_info_to_cache(table, lat, lon, ViaInadequada, highway_type),
                       net |-> TRUE, slept |-> TRUE]
                 ELSE [ret |-> StreetInfo(street_name, highway_type),
                       table |-> save_street_info_to_cache(table, lat, lon, street_name,
                                                           StoredType(highway_type)),
                       net |-> TRUE, slept |-> TRUE]

\* a lookup that answers from any cached row without looking at its way type
get_street_info_trusts_cache(coord, table, resp) ==
    LET lon == coord[1]
        lat == coord[2]
        cached_info == get_street_info_from_cache(table, lat, lon)
    IN  IF Truthy(cached_info)
        THEN [ret |-> StreetInfo(cached_info.street_name, cached_info.highway_type),
              table |-> table, net |-> FALSE, slept |-> FALSE]
        ELSE IF resp.kind # "ok"
        THEN [ret |-> PyNone, table |-> table, net |-> TRUE, slept |-> TRUE]
        ELSE LET highway_type == OrElse(resp.highway, resp.road_type)
                 street_name == IF resp.road = Absent THEN RuaDesconhecida ELSE resp.road
             IN  IF highway_type \in UNSUITABLE_WAYS
                 THEN [ret |-> PyNone,
                       table |-> save_street_info_to_cache(table, lat, lon, ViaInadequada, highway_type),
                       net |-> TRUE, slept |-> TRUE]
                 ELSE [ret |-> StreetInfo(street_name, highway_type),
                       table |-> save_street_info_to_cache(table, lat, lon, street_name,
                                                           StoredType(highway_type)),
                       net |-> TRUE, slept |-> TRUE]

\* ret: the return value; table: the cache afterwards; net: a request was
\* issued; slept: time.sleep(1) ran
get_street_info(coord, table, resp) ==
    LET lon == coord[1]
        lat == coord[2]
        cached_info == get_street_info_from_cache(table, lat, lon)
    IN  IF Truthy(cached_info)
        THEN [ret |-> IF cached_info.highway_type \in UNSUITABLE_WAYS
                      THEN PyNone
                      ELSE StreetInfo(cached_info.street_name, cached_info.highway_type),
              table |-> table, net |-> FALSE, slept |-> FALSE]
        ELSE IF resp.kind # "ok"
        THEN \* requests.get, raise_for_status, response.json() or a .get raised
             [ret |-> PyNone, table |-> table, net |-> TRUE, slept |-> TRUE]
        ELSE LET highway_type == OrElse(resp.highway, resp.road_type)
                 street_name == IF resp.road = Absent THEN RuaDesconhecida ELSE resp.road
             IN  IF highway_type \in UNSUITABLE_WAYS
                 THEN [ret |-> PyNone,
                       table |-> save_street_info_to_cache(table, lat, lon, ViaInadequada, highway_type),
                       net |-> TRUE, slept |-> TRUE]
                 ELSE [ret |-> StreetInfo(street_name, highway_type),
                       table |-> save_street_info_to_cache(table, lat, lon, street_name,
                                                           StoredType(highway_type)),
                       net |-> TRUE, slept |-> TRUE]

-----------------------------------------------------------------------------
(* teste2.py: get_bus_route_streets *)

NewRun(segment, street_info) ==
    [py |-> "dict",
     name |-> street_info.name,
     type |-> street_info.type,
     length |-> segment.length,
     segments |-> <<segment.id>>,
     start |-> segment.start,
     end |-> segment.end]

\* a run that keeps the end of its first segment
ExtendRun_keeps_end(run, segment) ==
    [run EXCEPT !.length = @ + segment.length,
                !.segments = Append(@, segment.id)]

\* a run that takes the length of its last segment instead of the sum
ExtendRun_keeps_last_length(run, segment) ==
    [run EXCEPT !.length = segment.length,
                !.segments = Append(@, segment.id),
                !.end = segment.end]

ExtendRun(run, segment) ==
    [run EXCEPT !.length = @ + segment.length,
                !.segments = Append(@, segment.id),
                !.end = segment.end]

\* a loop body that closes the run at every accepted item
consolidate_never_extends(streets, current, segment, street_info) ==
    IF ~Truthy(street_info)
    THEN [route_streets |-> streets, current_street |-> current]
    ELSE IF current = PyNone
    THEN [route_streets |-> streets, current_street |-> NewRun(segment, street_info)]
    ELSE [route_streets |-> Append(streets, current),
          current_street |-> NewRun(segment, street_info)]

\* a loop body that puts a segment into an earlier closed run of the same name
consolidate_reopens(streets, current, segment, street_info) ==
    IF ~Truthy(street_info)
    THEN [route_streets |-> streets, current_street |-> current]
    ELSE IF current = PyNone
    THEN [route_streets |-> streets, current_street |-> NewRun(segment, street_info)]
    ELSE IF street_info.name = current.name
    THEN [route_streets |-> streets, current_street |-> ExtendRun(current, segment)]
    ELSE IF \E n \in 1..Len(streets) : streets[n].name = street_info.name
    THEN LET n == CHOOSE n \in 1..Len(streets) : streets[n].name = street_info.name
         IN  [route_streets |-> [streets EXCEPT ![n] = ExtendRun(@, segment)],
              current_street |-> current]
    ELSE [route_streets |-> Append(streets, current),
          current_street |-> NewRun(segment, street_info)]

\* a loop body where a skipped item closes the open run
consolidate_rejected_closes(streets, current, segment, street_info) ==
    IF ~Truthy(street_info)
    THEN [route_streets |-> IF Truthy(current) THEN Append(streets, current) ELSE streets,
          current_street |-> PyNone]
    ELSE IF current = PyNone
    THEN [route_streets |-> streets, current_street |-> NewRun(segment, street_info)]
    ELSE IF street_info.name = current.name
    THEN [route_streets |-> streets, current_street |-> ExtendRun(current, segment)]
    ELSE [route_streets |-> Append(streets, current),
          current_street |-> NewRun(segment, street_info)]

\* the body of the for loop after the lookup
consolidate(streets, current, segment, street_info) ==
    IF ~Truthy(street_info)
    THEN [route_streets |-> streets, current_street |-> current]
    ELSE IF current = PyNone
    THEN [route_streets |-> streets, current_street |-> NewRun(segment, street_info)]
    ELSE IF street_info.name = current.name
    THEN [route_streets |-> streets, current_street |-> ExtendRun(current, segment)]
    ELSE [route_streets |-> Append(streets, current),
          current_street |-> NewRun(segment, street_info)]

mid_point(segment) == segment.coordinates[(Len(segment.coordinates) \div 2) + 1]

\* how the exchange with the service went: "hit" (no request), the kind of
\* failure, "noroad" (an answer without a road field) or "ok"
Fault(hit, resp) ==
    IF hit THEN "hit"
    ELSE IF resp.kind # "ok" THEN resp.kind
    ELSE IF resp.road = Absent THEN "noroad"
    ELSE "ok"

\* the way type the answer carries, None without an answer
Way(hit, resp) ==
    IF ~hit /\ resp.kind = "ok" THEN OrElse(resp.highway, resp.road_type) ELSE NoneType

\* the record kept of a lookup: hit tells whether the cache held the key
Lookup(coord, hit, resp, r, raised) ==
    [coord |-> coord, hit |-> hit, net |-> r.net, slept |-> r.slept, ret |-> r.ret,
     raised |-> raised, fault |-> Fault(hit, resp), way |-> Way(hit, resp)]

NoLookup == [none |-> TRUE, hit |-> FALSE, net |-> FALSE, slept |-> FALSE, ret |-> PyNone,
             raised |-> FALSE, fault |-> "none", way |-> NoneType]

\* one iteration of the for loop
get_bus_route_streets_step ==
    /\ prog = "teste2"
    /\ pc = "loop"
    /\ i <= Len(segments)
    /\ \E resp \in Exchange(Truthy(street_names[<<mid_point(segments[i])[2],
                                                    mid_point(segments[i])[1]>>])) :
        LET segment == segments[i]
            key == <<mid_point(segment)[2], mid_point(segment)[1]>>
            r == get_street_info(mid_point(segment), street_names, resp)
            c == consolidate(route_streets, current_street, segment, r.ret)
        IN  /\ street_names' = r.table
            /\ route_streets' = c.route_streets
            /\ current_street' = c.current_street
            /\ resolved' = Append(resolved, r.ret)
            /\ last' = Lookup(mid_point(segment), Truthy(street_names[key]), resp, r, FALSE)
            /\ first_ret' = IF r.table # street_names
                            THEN [first_ret EXCEPT ![key] = r.ret]
                            ELSE first_ret
    /\ i' = i + 1
    /\ UNCHANGED <<prog, pc, passes, segments, main_vars, teste_vars, filter_vars, conc_vars, build_vars>>

\* the end of the loop: the open run is appended and the list returned
get_bus_route_streets_return ==
    /\ prog = "teste2"
    /\ pc = "loop"
    /\ i > Len(segments)
    /\ route_streets' = IF Truthy(current_street)
                        THEN Append(route_streets, current_street)
                        ELSE route_streets
    /\ pc' = "done"
    /\ UNCHANGED <<prog, passes, segments, street_names, i, current_street, resolved,
                   last, first_ret, main_vars, teste_vars, filter_vars, conc_vars, build_vars>>

\* get_bus_route_streets is called again on the same navigator
\* (generate_bus_route_report calls it after __main__ did)
get_bus_route_streets_call ==
    /\ prog = "teste2"
    /\ pc = "done"
    /\ passes < Calls
    /\ passes' = passes + 1
    /\ pc' = "loop"
    /\ i' = 1
    /\ route_streets' = <<>>
    /\ current_street' = PyNone
    /\ resolved' = <<>>
    /\ UNCHANGED <<prog, segments, street_names, last, first_ret, main_vars, teste_vars,
                   filter_vars, conc_vars, build_vars>>


-----------------------------------------------------------------------------
(* main.py *)

\* the 'address' object of a response: the keys road and road_type, each
\* possibly missing
Address(road, road_type) == [py |-> "address", road |-> road, road_type |-> road_type]

\* address.get('road'): the value, or None; only its truth value is used
HasRoad(address) == address.road # Absent /\ address.road # <<>>

\* ret: the return value; cache: the dict afterwards; raised: an exception
\* left the function
geocode_reverse(lat, lon, dict, resp) ==
    IF Truthy(dict[<<lat, lon>>])
    THEN [ret |-> dict[<<lat, lon>>], cache |-> dict, net |-> FALSE, slept |-> TRUE,
          raised |-> FALSE]
    ELSE CASE resp.kind = "exc" ->        \* requests.get raises
                [ret |-> PyNone, cache |-> dict, net |-> TRUE, slept |-> TRUE, raised |-> TRUE]
           [] resp.kind = "http" ->       \* status_code is not 200
                [ret |-> PyNone, cache |-> dict, net |-> TRUE, slept |-> TRUE, raised |-> FALSE]
           [] resp.kind = "badjson" ->    \* response.json() raises ValueError
                [ret |-> PyNone, cache |-> dict, net |-> TRUE, slept |-> TRUE, raised |-> FALSE]
           [] resp.kind = "badshape" ->   \* data or address is no object: AttributeError
                [ret |-> PyNone, cache |-> dict, net |-> TRUE, slept |-> TRUE, raised |-> TRUE]
           [] OTHER ->
                LET address == Address(resp.road, resp.road_type)
                IN  IF HasRoad(address)
                    THEN [ret |-> address,
                          cache |-> [dict EXCEPT ![<<lat, lon>>] = address],
                          net |-> TRUE, slept |-> TRUE, raised |-> FALSE]
                    ELSE [ret |-> PyNone, cache |-> dict, net |-> TRUE, slept |-> TRUE,
                          raised |-> FALSE]

\* a filter that forgets the "&" test
is_valid_street_without_ampersand(address) ==
    IF ~Truthy(address)
    THEN PyNone
    ELSE LET road_name == IF address.road = Absent THEN <<>> ELSE address.road
         IN  IF Contains(Lower(road_name), <<" ", "e", " ">>)
             THEN PyNone
             ELSE PyStr(road_name)

\* None, or the road name
is_valid_street(address) ==
    IF ~Truthy(address)
    THEN PyNone
    ELSE LET road_name == IF address.road = Absent THEN <<>> ELSE address.road
         IN  IF Contains(Lower(road_name), <<" ", "e", " ">>) \/ Contains(road_name, <<"&">>)
             THEN PyNone
             ELSE PyStr(road_name)

PointLists == UNION {[1..n -> Coords] : n \in 0..MaxPoints}

\* one iteration of the for loop
get_street_itinerary_step ==
    /\ prog = "main"
    /\ pc = "loop"
    /\ i <= Len(points)
    /\ \E resp \in Exchange(Truthy(cache[<<points[i][2], points[i][1]>>])) :
        LET lon == points[i][1]
            lat == points[i][2]
            r == geocode_reverse(lat, lon, cache, resp)
            road_name == is_valid_street(r.ret)
        IN  /\ cache' = r.cache
            /\ last' = Lookup(points[i], Truthy(cache[<<lat, lon>>]), resp, r, r.raised)
            /\ first_ret' = IF r.cache # cache
                            THEN [first_ret EXCEPT ![<<lat, lon>>] = r.ret]
                            ELSE first_ret
            /\ IF r.raised
               THEN /\ pc' = "raised"
                    /\ UNCHANGED <<i, resolved, itinerary, previous_street>>
               ELSE /\ pc' = pc
                    /\ i' = i + 1
                    /\ resolved' = Append(resolved, r.ret)
                    /\ IF Truthy(road_name) /\ road_name # previous_street
                       THEN /\ itinerary' = Append(itinerary, road_name.s)
                            /\ previous_street' = road_name
                       ELSE UNCHANGED <<itinerary, previous_street>>
    /\ UNCHANGED <<prog, points, nav_vars, teste_vars, filter_vars, conc_vars, build_vars>>

\* the end of the loop: street_names is returned
get_street_itinerary_return ==
    /\ prog = "main"
    /\ pc = "loop"
    /\ i > Len(points)
    /\ pc' = "done"
    /\ UNCHANGED <<prog, i, resolved, last, first_ret, nav_vars, main_vars, teste_vars,
                   filter_vars, conc_vars, build_vars>>

-----------------------------------------------------------------------------
(* The two geocoding scripts: teste2.py and main.py *)

\* the state before anything ran, whatever the script
Fresh ==
    /\ i = 1
    /\ passes = 1
    /\ street_names = [k \in Keys |-> PyNone]
    /\ cache = [k \in Keys |-> PyNone]
    /\ route_streets = <<>>
    /\ current_street = PyNone
    /\ resolved = <<>>
    /\ last = NoLookup
    /\ first_ret = [k \in Keys |-> PyNone]
    /\ previous_street = PyNone
    /\ itinerary = <<>>
    /\ nomes_ruas = <<>>
    /\ rua_anterior = PyNone
    /\ street_ret = PyNone

Init ==
    /\ prog \in {"teste2", "main"}
    /\ pc = "loop"
    /\ segments \in {process_segments(f) : f \in IF prog = "teste2" THEN FeatureLists ELSE {<<>>}}
    /\ points \in (IF prog = "main" THEN PointLists ELSE {<<>>})
    /\ coordenadas = <<>>
    /\ address_arg = PyNone
    /\ Fresh
    /\ geojson = <<>>
    /\ callers = <<>>

Next ==
    \/ get_bus_route_streets_step
    \/ get_bus_route_streets_return
    \/ get_bus_route_streets_call
    \/ get_street_itinerary_step
    \/ get_street_itinerary_return

Spec == Init /\ [][Next]_vars

TypeOK ==
    /\ prog \in {"teste2", "main", "teste", "filter", "conc"}
    /\ pc \in {"init", "loop", "call", "done", "raised"}
    /\ passes \in 1..Calls
    /\ i \in 1..(Len(segments) + Len(points) + MaxSteps + 1)


-----------------------------------------------------------------------------
(* main.py: is_valid_street called on its own *)

NameAeB == <<"A", " ", "e", " ", "B">>
NameAandB == <<"A", " ", "a", "n", "d", " ", "B">>
NameAe == <<"A", "e">>
NameAmp == <<"A", "&", "B">>
NameE == <<" ", "E", " ">>

FilterNames == Roads \cup {NameAeB, NameAandB, NameAe, NameAmp, NameE}

FilterTypes == UNSUITABLE_WAYS \cup {"residential", NoneType}

\* None, and the address dicts with or without either key
FilterInputs ==
    {PyNone} \cup {Address(r, t) : r \in FilterNames \cup {Absent}, t \in FilterTypes}

InitFilter ==
    /\ prog = "filter"
    /\ pc = "call"
    /\ address_arg \in FilterInputs
    /\ segments = <<>>
    /\ points = <<>>
    /\ coordenadas = <<>>
    /\ Fresh
    /\ geojson = <<>>
    /\ callers = <<>>

is_valid_street_call ==
    /\ prog = "filter"
    /\ pc = "call"
    /\ street_ret' = is_valid_street(address_arg)
    /\ pc' = "done"
    /\ UNCHANGED <<prog, i, resolved, last, first_ret, nav_vars, main_vars, teste_vars,
                   address_arg, conc_vars, build_vars>>

NextFilter == is_valid_street_call

SpecFilter == InitFilter /\ [][NextFilter]_vars

-----------------------------------------------------------------------------
(* teste.py: extrair_nomes_das_ruas *)

\* Coordinates (lat, lon) in thousandths of a degree; bearings in hundredths
\* of a degree.  The table holds the value of the source's formula
\*   degrees(atan2(cos(lat2) sin(dlon),
\*                 cos(lat1) sin(lat2) - sin(lat1) cos(lat2) cos(dlon)))
\* for the legs of the routes below, which depends on the displacement
\* only at this precision.
calcular_direcao(ponto1, ponto2) ==
    LET d_lat == ponto2[1] - ponto1[1]
        d_lon == ponto2[2] - ponto1[2]
    IN  CASE d_lat = 10 /\ d_lon = 0 -> 0
          [] d_lat = 0 /\ d_lon = 10 -> 9000
          [] d_lat = 10 /\ d_lon = 5 -> 2657
          [] d_lat = -573 /\ d_lon = 10 -> 17900
          [] d_lat = -573 /\ d_lon = -10 -> -17900

RouteBend == <<<<0, 0>>, <<10, 0>>, <<20, 5>>, <<30, 5>>>>
RouteTurn == <<<<0, 0>>, <<10, 0>>, <<10, 10>>, <<20, 10>>>>
RouteWrap == <<<<0, 0>>, <<-573, 10>>, <<-1146, 0>>, <<-1719, 10>>>>
RouteShort == <<<<0, 0>>, <<10, 0>>>>

Routes == {RouteBend, RouteTurn, RouteWrap, RouteShort}

NameC == <<"C">>
SemNome == <<"S", "e", "m", " ", "n", "o", "m", "e">>

\* a step of the directions answer: its name and its way_points, either
\* possibly missing
Steps ==
    {[name |-> n, way_points |-> w] :
        n \in {NameA, NameC, Absent},
        w \in {<<>>, <<1>>, <<0, 1>>, <<1, 2>>, <<2, 3>>, <<3, 3>>}}

\* a loop body that never lets a conflicting name in
extrair_step_only_skips(nomes, anterior, step, coords) ==
    LET nome_rua == IF step.name = Absent THEN SemNome ELSE step.name
    IN  IF nome_rua = SemNome
        THEN [nomes_ruas |-> nomes, rua_anterior |-> anterior]
        ELSE IF anterior = PyNone \/ PyStr(nome_rua) = anterior
        THEN [nomes_ruas |-> Append(nomes, nome_rua), rua_anterior |-> PyStr(nome_rua)]
        ELSE [nomes_ruas |-> nomes, rua_anterior |-> anterior]

\* the body of the inner for loop
extrair_step(nomes, anterior, step, coords) ==
    LET nome_rua == IF step.name = Absent THEN SemNome ELSE step.name
        way_points == step.way_points
        idx == way_points[1]
        \* coordenadas[k] of the source is coords[k + 1]
        direcao == calcular_direcao(coords[idx], coords[idx + 1])
    IN  IF nome_rua = SemNome
        THEN [nomes_ruas |-> nomes, rua_anterior |-> anterior]
        ELSE IF anterior = PyNone \/ PyStr(nome_rua) = anterior
        THEN [nomes_ruas |-> Append(nomes, nome_rua), rua_anterior |-> PyStr(nome_rua)]
        ELSE IF /\ Len(way_points) >= 2
                /\ idx > 0 /\ idx + 1 < Len(coords)
                /\ Abs(direcao - calcular_direcao(coords[idx + 1], coords[idx + 2])) < 4500
        THEN [nomes_ruas |-> Append(nomes, nome_rua), rua_anterior |-> PyStr(nome_rua)]
        ELSE [nomes_ruas |-> nomes, rua_anterior |-> anterior]

InitTeste ==
    /\ prog = "teste"
    /\ pc = "loop"
    /\ coordenadas \in Routes
    /\ segments = <<>>
    /\ points = <<>>
    /\ address_arg = PyNone
    /\ Fresh
    /\ geojson = <<>>
    /\ callers = <<>>

\* one step of the route is read; resolved keeps, for every step read, its
\* name, rua_anterior before it and whether it was appended; last keeps the step
extrair_nomes_das_ruas_step ==
    /\ prog = "teste"
    /\ pc = "loop"
    /\ i <= MaxSteps
    /\ \E step \in Steps :
        LET r == extrair_step(nomes_ruas, rua_anterior, step, coordenadas)
        IN  /\ nomes_ruas' = r.nomes_ruas
            /\ rua_anterior' = r.rua_anterior
            /\ resolved' = Append(resolved,
                    [name |-> IF step.name = Absent THEN SemNome ELSE step.name,
                     prev |-> rua_anterior,
                     taken |-> r.nomes_ruas # nomes_ruas])
            /\ last' = step
    /\ i' = i + 1
    /\ UNCHANGED <<prog, pc, first_ret, nav_vars, main_vars, coordenadas, filter_vars, conc_vars, build_vars>>

\* the steps are exhausted: nomes_ruas is returned
extrair_nomes_das_ruas_return ==
    /\ prog = "teste"
    /\ pc = "loop"
    /\ pc' = "done"
    /\ UNCHANGED <<prog, i, resolved, last, first_ret, nav_vars, main_vars, teste_vars,
                   filter_vars, conc_vars, build_vars>>

NextTeste ==
    \/ extrair_nomes_das_ruas_step
    \/ extrair_nomes_das_ruas_return

SpecTeste == InitTeste /\ [][NextTeste]_vars

-----------------------------------------------------------------------------
(* teste2.py: calls of get_street_info that interleave on one cache file *)

\* Each caller runs get_street_info on its own coordinate against the shared
\* table street_names (navigators opened on the same cache_db).  A call is
\* at "start", has found no row ("miss"), has its request out ("inflight")
\* or has returned ("done").
Caller(coord, at, ret) == [coord |-> coord, pc |-> at, ret |-> ret]

InitConc ==
    /\ prog = "conc"
    /\ pc = "call"
    /\ segments = <<>>
    /\ points = <<>>
    /\ coordenadas = <<>>
    /\ address_arg = PyNone
    /\ Fresh
    /\ geojson = <<>>
    /\ callers \in [1..MaxCallers -> {Caller(c, "start", PyNone) : c \in Coords}]

\* lines 106-113: the cache is read; a row answers the call at once
get_street_info_read(t) ==
    /\ prog = "conc"
    /\ callers[t].pc = "start"
    /\ LET coord == callers[t].coord
           cached == get_street_info_from_cache(street_names, coord[2], coord[1])
       IN  IF Truthy(cached)
           THEN callers' = [callers EXCEPT ![t] =
                   Caller(coord, "done", get_street_info(coord, street_names, NoResponse).ret)]
           ELSE callers' = [callers EXCEPT ![t].pc = "miss"]
    /\ UNCHANGED <<prog, pc, i, resolved, last, first_ret, nav_vars, main_vars,
                   teste_vars, filter_vars, build_vars>>

\* lines 119-121: after the pause the request is sent
get_street_info_send(t) ==
    /\ prog = "conc"
    /\ callers[t].pc = "miss"
    /\ callers' = [callers EXCEPT ![t].pc = "inflight"]
    /\ UNCHANGED <<prog, pc, i, resolved, last, first_ret, nav_vars, main_vars,
                   teste_vars, filter_vars, build_vars>>

\* lines 122-144: the answer arrives; the row is written with INSERT OR REPLACE
\* whatever the table holds by then
get_street_info_receive(t) ==
    /\ prog = "conc"
    /\ callers[t].pc = "inflight"
    /\ \E resp \in Responses :
         LET coord == callers[t].coord
             blank == [street_names EXCEPT ![<<coord[2], coord[1]>>] = PyNone]
             r     == get_street_info(coord, blank, resp)
             row   == get_street_info_from_cache(r.table, coord[2], coord[1])
         IN  /\ callers' = [callers EXCEPT ![t] = Caller(coord, "done", r.ret)]
             /\ street_names' = IF Truthy(row)
                                 THEN [street_names EXCEPT ![<<coord[2], coord[1]>>] = row]
                                 ELSE street_names
    /\ UNCHANGED <<prog, pc, i, resolved, last, first_ret, passes, segments, route_streets,
                   current_street, main_vars, teste_vars, filter_vars, build_vars>>

NextConc ==
    \E t \in 1..MaxCallers :
        \/ get_street_info_read(t)
        \/ get_street_info_send(t)
        \/ get_street_info_receive(t)

SpecConc == InitConc /\ [][NextConc]_vars

-----------------------------------------------------------------------------
(* teste2.py: the navigator constructed on a features file, then used *)

\* the coordinate lists of the file's features: none, one or two coordinates
FilePolylines == {<<>>, <<C0>>, <<C0, C1>>}

FileFeatureLists == UNION {[1..n -> FilePolylines] : n \in 1..MaxSegments}

InitBuild ==
    /\ prog = "teste2"
    /\ pc = "init"
    /\ geojson \in FileFeatureLists
    /\ segments = <<>>
    /\ points = <<>>
    /\ coordenadas = <<>>
    /\ address_arg = PyNone
    /\ callers = <<>>
    /\ Fresh

\* __init__: _process_segments reads coords[0] and coords[-1] of every
\* feature, which raises IndexError on an empty coordinate list
BusRouteNavigator_init ==
    /\ prog = "teste2"
    /\ pc = "init"
    /\ IF \E k \in 1..Len(geojson) : Len(geojson[k]) = 0
       THEN /\ pc' = "raised"
            /\ UNCHANGED segments
       ELSE /\ pc' = "loop"
            /\ segments' = process_segments(geojson)
    /\ UNCHANGED <<prog, i, resolved, last, first_ret, passes, street_names, route_streets,
                   current_street, main_vars, teste_vars, filter_vars, conc_vars, build_vars>>

NextBuild ==
    \/ BusRouteNavigator_init
    \/ get_bus_route_streets_step
    \/ get_bus_route_streets_return
    \/ get_bus_route_streets_call

SpecBuild == InitBuild /\ [][NextBuild]_vars

-----------------------------------------------------------------------------
(* Properties *)

\* the cache key of a coordinate pair (lon, lat)
KeyOf(coord) == <<coord[2], coord[1]>>

\* the cache of the script that runs
CacheOf == IF prog = "teste2" THEN street_names ELSE cache

RunNames(streets) == [k \in 1..Len(streets) |-> streets[k].name]

NoAdjacentEqual(names) == \A k \in 1..(Len(names) - 1) : names[k] # names[k + 1]

RECURSIVE SumRunLength(_)
SumRunLength(streets) ==
    IF streets = <<>> THEN 0 ELSE Head(streets).length + SumRunLength(Tail(streets))

\* the summed length of the first n segments whose lookup gave a street
RECURSIVE SumAccepted(_)
SumAccepted(n) ==
    IF n = 0 THEN 0
    ELSE (IF Truthy(resolved[n]) THEN segments[n].length ELSE 0) + SumAccepted(n - 1)

\* a cached row written for an unsuitable way
IsSentinel(row) == Truthy(row) /\ row.highway_type \in UNSUITABLE_WAYS

\* C1: the list a consolidator returns never holds two consecutive entries
\* with the same street name (the runs of get_bus_route_streets, the names
\* of get_street_itinerary).
C1_NoAdjacentEqualNames ==
    pc = "done" =>
        /\ NoAdjacentEqual(RunNames(route_streets))
        /\ NoAdjacentEqual(itinerary)

\* a returned list of two runs, one of them merged from two segments
C1_Witness ==
    /\ prog = "teste2"
    /\ pc = "done"
    /\ Len(route_streets) = 2
    /\ \E k \in 1..2 : Len(route_streets[k].segments) = 2

\* C2: a second lookup of a coordinate, served by the cache the first lookup
\* filled, returns the descriptor the first lookup returned (same name, same
\* way type) and issues no request.
C2_WarmLookupIdentical ==
    last.hit => /\ last.ret = first_ret[KeyOf(last.coord)]
                /\ ~last.net

\* C3: on a cache miss, an HTTP error, a malformed payload or an answer
\* without a road field gives NotFound and leaves the cache without an entry
\* for the coordinate.
C3_FailureLeavesNoEntry ==
    last.fault \in {"http", "badjson", "badshape", "noroad"} =>
        /\ last.ret = PyNone
        /\ ~last.raised
        /\ ~Truthy(CacheOf[KeyOf(last.coord)])

\* C4: a lookup that resolves a coordinate to an unsuitable way type leaves a
\* sentinel row in the cache; from then on the row stays as it is and every
\* lookup of the coordinate returns NotFound without a request.
C4_UnsuitableSticks ==
    [][prog = "teste2" =>
        /\ \A k \in Keys : IsSentinel(street_names[k]) => street_names'[k] = street_names[k]
        /\ Len(resolved') = Len(resolved) + 1 =>
              /\ last'.way \in UNSUITABLE_WAYS => IsSentinel(street_names'[KeyOf(last'.coord)])
              /\ IsSentinel(street_names[KeyOf(last'.coord)]) =>
                    /\ last'.ret = PyNone
                    /\ ~last'.net]_vars

\* a lookup served by a sentinel row
C4_Witness ==
    /\ prog = "teste2"
    /\ last.hit
    /\ IsSentinel(street_names[KeyOf(last.coord)])
    /\ last.ret = PyNone

\* C5: the lengths of the returned runs add up to the lengths of the segments
\* that were not skipped.
C5_LengthConservation ==
    (prog = "teste2" /\ pc = "done") =>
        SumRunLength(route_streets) = SumAccepted(Len(segments))

\* a returned list with a run of two segments, while a segment of non-zero
\* length was skipped
C5_Witness ==
    /\ prog = "teste2"
    /\ pc = "done"
    /\ \E k \in 1..Len(route_streets) :
          /\ Len(route_streets[k].segments) = 2
          /\ route_streets[k].length > segments[route_streets[k].segments[2]].length
    /\ \E n \in 1..Len(segments) : ~Truthy(resolved[n]) /\ segments[n].length > 0

\* C7: no returned run or itinerary entry has an intersection name.
C7_NoIntersectionRun ==
    pc = "done" =>
        /\ \A k \in 1..Len(route_streets) : ~IsIntersectionName(route_streets[k].name)
        /\ \A k \in 1..Len(itinerary) : ~IsIntersectionName(itinerary[k])

\* C9: a lookup served from the cache does not sleep.
C9_HitDoesNotSleep == last.hit => ~last.slept

\* C10: a failed lookup (network exception, HTTP error status, malformed
\* response) gives NotFound for its point and the computation goes on: it never
\* ends with an error.
C10_FailureSwallowed ==
    /\ pc # "raised"
    /\ last.fault \in {"exc", "http", "badjson", "badshape"} =>
          last.ret = PyNone /\ ~last.raised


\* the filter rejects: it returns None or the empty name, which the caller
\* treats alike
Rejected(ret) == ~Truthy(ret)

RoadOf(a) == IF a = PyNone \/ a.road = Absent THEN <<>> ELSE a.road

HasConnector(name) ==
    \/ Contains(Lower(name), <<" ", "e", " ">>)
    \/ Contains(Lower(name), <<" ", "a", "n", "d", " ">>)

\* C6: the filter rejects every descriptor that is absent, has an empty name,
\* has a name with "&" or a connector token (" e ", " and "), or has an
\* unsuitable way type.
C6_FilterRejects ==
    (prog = "filter" /\ pc = "done") =>
        ((\/ address_arg = PyNone
          \/ RoadOf(address_arg) = <<>>
          \/ Contains(RoadOf(address_arg), <<"&">>)
          \/ HasConnector(RoadOf(address_arg))
          \/ address_arg.road_type \in UNSUITABLE_WAYS)
         => Rejected(street_ret))

\* C6 as amended: the filter rejects exactly the descriptors that are absent,
\* have an empty name, or have a name with "&" or the connector " e " in any
\* letter case; every other descriptor gets its road name back, whatever its
\* way type.
C6_FilterRejectsNames ==
    (prog = "filter" /\ pc = "done") =>
        IF \/ address_arg = PyNone
           \/ RoadOf(address_arg) = <<>>
           \/ Contains(RoadOf(address_arg), <<"&">>)
           \/ Contains(Lower(RoadOf(address_arg)), <<" ", "e", " ">>)
        THEN Rejected(street_ret)
        ELSE street_ret = PyStr(address_arg.road)

\* the filter has rejected an "&" name of a suitable way
C6_Witness ==
    /\ prog = "filter"
    /\ pc = "done"
    /\ address_arg = Address(NameAampB, "residential")
    /\ street_ret = PyNone

\* the names of the steps read so far
StepNames == [k \in 1..Len(resolved) |-> resolved[k].name]

\* step k has a name that differs from the run before it
Conflicts(k) ==
    /\ resolved[k].name # SemNome
    /\ resolved[k].prev # PyNone
    /\ PyStr(resolved[k].name) # resolved[k].prev

\* the bearing test at a step, on its own way_points
DirectionConsistent(step, coords) ==
    /\ Len(step.way_points) >= 2
    /\ step.way_points[1] > 0
    /\ step.way_points[1] + 1 < Len(coords)
    /\ Abs(calcular_direcao(coords[step.way_points[1]], coords[step.way_points[1] + 1])
           - calcular_direcao(coords[step.way_points[1] + 1], coords[step.way_points[1] + 2]))
         < 4500

\* C8: a step whose name differs from the run before it and from the name of
\* the next step is skipped, whether or not the bearings are consistent; the
\* names [A, A, C, A] give A entries only.
C8_ConflictAlwaysSkipped ==
    prog = "teste" =>
        /\ \A k \in 1..(Len(resolved) - 1) :
              (/\ Conflicts(k)
               /\ resolved[k + 1].name # SemNome
               /\ resolved[k].name # resolved[k + 1].name) => ~resolved[k].taken
        /\ StepNames = <<NameA, NameA, NameC, NameA>> =>
              \A k \in 1..Len(nomes_ruas) : nomes_ruas[k] = NameA

\* C8 as amended: a step whose name differs from the run before it is skipped
\* exactly when the bearing test fails (fewer than two way points, a first way
\* point that is not an inner index of coordenadas, or bearings 45 degrees or
\* more apart); when the test passes it is appended and becomes the run's
\* name.  The name of the next step plays no part.
C8_ConflictSkippedUnlessConsistent ==
    (prog = "teste" /\ resolved # <<>> /\ Conflicts(Len(resolved))) =>
        IF DirectionConsistent(last, coordenadas)
        THEN /\ resolved[Len(resolved)].taken
             /\ nomes_ruas[Len(nomes_ruas)] = resolved[Len(resolved)].name
             /\ rua_anterior = PyStr(resolved[Len(resolved)].name)
        ELSE /\ ~resolved[Len(resolved)].taken
             /\ rua_anterior = resolved[Len(resolved)].prev

\* the names [A, A, C, A] were read and C, between two A, was appended
C8_Witness ==
    /\ prog = "teste"
    /\ pc = "done"
    /\ StepNames = <<NameA, NameA, NameC, NameA>>
    /\ resolved[3].taken
    /\ \E k \in 1..Len(nomes_ruas) : nomes_ruas[k] = NameC


\* C11: with an empty input sequence the computation ends in a failure, before
\* any request and any cache access; it does not return an empty itinerary.
C11_EmptyInputFails ==
    (prog \in {"teste2", "main"} /\ segments = <<>> /\ points = <<>>) => pc # "done"


InFlight(c) == {t \in DOMAIN callers : callers[t].pc = "inflight" /\ callers[t].coord = c}

\* C12: of the lookups that interleave on one cache, at most one request per
\* coordinate is in flight at any moment.
C12_OneInFlightPerCoordinate ==
    prog = "conc" => \A c \in Coords : Cardinality(InFlight(c)) <= 1


\* the runs built so far: the closed ones and, inside the loop, the open one
RunsSoFar ==
    IF pc = "loop" /\ Truthy(current_street)
    THEN Append(route_streets, current_street)
    ELSE route_streets

InRun(run, id) == \E n \in 1..Len(run.segments) : run.segments[n] = id

\* items k < m of one pass that were both accepted, with nothing but skipped
\* items between them
NextAccepted(k, m) ==
    /\ k < m
    /\ Truthy(resolved[k])
    /\ Truthy(resolved[m])
    /\ \A j \in (k + 1)..(m - 1) : ~Truthy(resolved[j])

\* the street names of get_street_itinerary's accepted points, in order
RECURSIVE AcceptedRoads(_)
AcceptedRoads(n) ==
    IF n = 0 THEN <<>>
    ELSE LET road_name == is_valid_street(resolved[n])
         IN  IF Truthy(road_name) THEN Append(AcceptedRoads(n - 1), road_name.s)
             ELSE AcceptedRoads(n - 1)

\* a list without the entries equal to their predecessor
RECURSIVE Collapse(_)
Collapse(names) ==
    IF Len(names) <= 1 THEN names
    ELSE LET front == Collapse(SubSeq(names, 1, Len(names) - 1))
         IN  IF names[Len(names)] = names[Len(names) - 1] THEN front
             ELSE Append(front, names[Len(names)])

\* C13: a skipped item neither closes the open run nor changes the street
\* compared against: two accepted items of the same street with only skipped
\* items between them lie in one run ([A, X, A] with X skipped gives one run of
\* two segments), and the itinerary is the accepted names with repeats removed.
C13_SkippedKeepsRunOpen ==
    /\ prog = "teste2" =>
          \A k, m \in 1..Len(resolved) :
              (NextAccepted(k, m) /\ resolved[k].name = resolved[m].name) =>
                  \E n \in 1..Len(RunsSoFar) :
                      InRun(RunsSoFar[n], segments[k].id) /\ InRun(RunsSoFar[n], segments[m].id)
    /\ prog = "main" => itinerary = Collapse(AcceptedRoads(Len(resolved)))

\* the returned list for three segments A, skipped, A: one run of segments 1 and 3
C13_Witness ==
    /\ prog = "teste2"
    /\ pc = "done"
    /\ Len(resolved) = 3
    /\ ~Truthy(resolved[2])
    /\ Len(route_streets) = 1
    /\ route_streets[1].segments = <<1, 3>>


\* the difference of two bearings taken around the circle, in hundredths of a
\* degree: never more than 180 degrees
CircularDifference(a, b) ==
    LET d == Abs(a - b) IN IF d > 18000 THEN 36000 - d ELSE d

\* the step has two way points and its first way point is an inner index
HasBearings(step, coords) ==
    /\ Len(step.way_points) >= 2
    /\ step.way_points[1] > 0
    /\ step.way_points[1] + 1 < Len(coords)

\* C14: for a step whose name differs from the run before it, the bearings
\* before and after its first way point are judged consistent, and the step
\* appended, exactly when their circular difference is below 45 degrees;
\* bearings of 179 and -179 degrees, 2 degrees apart, are consistent.
C14_ConsistentIffCircularBelow45 ==
    (/\ prog = "teste"
     /\ resolved # <<>>
     /\ Conflicts(Len(resolved))
     /\ HasBearings(last, coordenadas)) =>
        (resolved[Len(resolved)].taken <=>
            CircularDifference(
                calcular_direcao(coordenadas[last.way_points[1]],
                                 coordenadas[last.way_points[1] + 1]),
                calcular_direcao(coordenadas[last.way_points[1] + 1],
                                 coordenadas[last.way_points[1] + 2])) < 4500)


\* C16: the list extrair_nomes_das_ruas builds never holds two consecutive
\* entries with the same name.
C16_NoAdjacentEqualStepNames ==
    prog = "teste" => NoAdjacentEqual(nomes_ruas)


\* the names get_street_info gave for the first n segments of this pass, in order
RECURSIVE AcceptedNames(_)
AcceptedNames(n) ==
    IF n = 0 THEN <<>>
    ELSE IF Truthy(resolved[n]) THEN Append(AcceptedNames(n - 1), resolved[n].name)
    ELSE AcceptedNames(n - 1)

\* the list kept the runs it had, as they were
ClosedRunsKept ==
    /\ Len(route_streets') >= Len(route_streets)
    /\ SubSeq(route_streets', 1, Len(route_streets)) = route_streets

\* C15: a run that was appended to route_streets is never modified while the
\* list is built and returned; a street that recurs after another one opens a
\* new run, so that the runs carry the accepted names with repeats removed
\* ([A, B, A] gives runs A, B, A) and every run ends before the next one starts.
C15_ClosedRunNeverModified ==
    [][prog = "teste2" =>
        /\ passes' = passes => ClosedRunsKept
        /\ RunNames(RunsSoFar)' = Collapse(AcceptedNames(Len(resolved)))'
        /\ \A n \in 1..(Len(RunsSoFar') - 1) :
              RunsSoFar'[n].segments[Len(RunsSoFar'[n].segments)] < RunsSoFar'[n + 1].segments[1]
      ]_vars

\* the returned list for three segments A, B, A: three runs of one segment each
C15_Witness ==
    /\ prog = "teste2"
    /\ pc = "done"
    /\ Len(resolved) = 3
    /\ AcceptedNames(3) = <<NameA, NameB, NameA>>
    /\ RunNames(route_streets) = <<NameA, NameB, NameA>>
    /\ route_streets[1].segments = <<1>>
    /\ route_streets[3].segments = <<3>>


\* C17: a segment with fewer than two coordinates (none or one) is not an
\* error: the navigator is built, the segment has length 0, and when its
\* lookup gives a street it is put into a run like any other segment.
C17_ShortSegmentNotAnError ==
    (prog = "teste2" /\ \E k \in 1..Len(geojson) : Len(geojson[k]) < 2) =>
        /\ pc # "raised"
        /\ \A k \in 1..Len(segments) :
              Len(segments[k].coordinates) < 2 => segments[k].length = 0
        /\ \A k \in 1..Len(resolved) :
              Truthy(resolved[k]) =>
                  \E n \in 1..Len(RunsSoFar) : InRun(RunsSoFar[n], segments[k].id)


\* the step was a lookup: an iteration of the loop, or the one that raised
LookedUp == i' = i + 1 \/ pc' = "raised"

\* what a step may do to the cache of the script that runs
CacheStep ==
    /\ (LookedUp /\ last'.hit) => CacheOf' = CacheOf
    /\ \A k \in Keys :
          /\ Truthy(CacheOf[k]) => Truthy(CacheOf'[k])
          /\ CacheOf'[k] # CacheOf[k] =>
                /\ LookedUp
                /\ last'.net
                /\ KeyOf(last'.coord) = k
                /\ Truthy(CacheOf'[k])
                /\ prog = "teste2" =>
                      /\ CacheOf'[k].highway_type = StoredType(last'.way)
                      /\ CacheOf'[k].street_name =
                            (IF Truthy(last'.ret) THEN last'.ret.name ELSE ViaInadequada)
                /\ prog = "main" => CacheOf'[k] = last'.ret

\* C18: a lookup answered by the cache leaves the cache as it was; an entry
\* changes only when a lookup of its coordinate went to the network, and then
\* it is written whole; no lookup removes an entry.
C18_CacheChangesOnlyByNetworkWrite ==
    [][(prog \in {"teste2", "main"}) => CacheStep]_vars

\* a lookup answered from a row of a suitable way, while the other
\* coordinate has a row too
C18_Witness ==
    /\ prog = "teste2"
    /\ last.hit
    /\ Truthy(last.ret)
    /\ \A k \in Keys : Truthy(street_names[k])


\* the segment-id lists of the runs, one after the other
RECURSIVE ConcatSegments(_)
ConcatSegments(streets) ==
    IF streets = <<>> THEN <<>>
    ELSE Head(streets).segments \o ConcatSegments(Tail(streets))

\* the ids of the first n segments whose lookup gave a street, in order
RECURSIVE AcceptedIds(_)
AcceptedIds(n) ==
    IF n = 0 THEN <<>>
    ELSE IF Truthy(resolved[n]) THEN Append(AcceptedIds(n - 1), segments[n].id)
    ELSE AcceptedIds(n - 1)

\* the segment with the given id
SegmentOf(id) == CHOOSE s \in {segments[k] : k \in 1..Len(segments)} : s.id = id

\* C19: the segment-id lists of the returned runs, concatenated in order, are
\* the ids of the segments that were not skipped, in input order, each once;
\* every run starts where its first segment starts and ends where its last
\* segment ends.
C19_RunsPartitionAcceptedSegments ==
    (prog = "teste2" /\ pc = "done") =>
        /\ ConcatSegments(route_streets) = AcceptedIds(Len(segments))
        /\ \A n \in 1..Len(route_streets) :
              LET ids == route_streets[n].segments
              IN  /\ ids # <<>>
                  /\ route_streets[n].start = SegmentOf(ids[1]).start
                  /\ route_streets[n].end = SegmentOf(ids[Len(ids)]).end

\* a returned run of two segments that end at different places, after a
\* skipped segment
C19_Witness ==
    /\ prog = "teste2"
    /\ pc = "done"
    /\ Len(resolved) = 3
    /\ ~Truthy(resolved[1])
    /\ Len(route_streets) = 1
    /\ route_streets[1].segments = <<2, 3>>
    /\ segments[2].end # segments[3].end
    /\ route_streets[1].start # route_streets[1].end

=============================================================================
